---- MODULE Spec2Model ----
(***************************************************************************)
(* Model of my_todo.py: the TaskDB store (a list of task records held in   *)
(* memory, persisted as a JSON array in one backing file) and its          *)
(* operations task_add, task_query, task_done and task_count_get.          *)
(*                                                                         *)
(* Strings are sequences of Unicode code points, so that str.lower() and   *)
(* the substring test of task_query are computed, not assumed.  The        *)
(* content of the backing file is a sequence of JSON tokens (white space   *)
(* and indentation carry no meaning for json.load and are left out);       *)
(* json.dumps and json.load are the operators json_dumps and json_load.    *)
(***************************************************************************)
EXTENDS Integers, Sequences, FiniteSets, TLC

\* ------------------------------------------------------------------ bounds

\* add is not called on a collection that already holds MaxLen records
MaxLen == 3
\* add is not called when it would assign an id above MaxId
MaxId == 3

\* CLI processes; each constructs its own TaskDB over the same backing file
Procs == {1, 2}

\* ----------------------------------------------------------------- strings

\* (title, description) pairs handed to task_add: ("A", "b") and ("b", "")
Inputs == { << <<65>>, <<98>> >>, << <<98>>, <<>> >> }

\* query strings handed to task_query: "", "AB", "ab", "x"
Queries == { <<>>, <<65, 66>>, <<97, 98>>, <<120>> }

\* counts handed to task_count_get (the CLI passes int(args.count)): every
\* count up to one above the largest collection, and 10
Counts == (0 .. (MaxLen + 1)) \cup {10}

\* ids handed to task_done (the CLI passes int(args.task_id))
TaskIds == 1 .. MaxId

\* str.lower() on one code point: Latin A-Z and Cyrillic A-YA move by 32
lower_char(c) ==
    IF (c >= 65 /\ c <= 90) \/ (c >= 1040 /\ c <= 1071) THEN c + 32 ELSE c

\* str.lower()
lower(s) == [i \in 1..Len(s) |-> lower_char(s[i])]

\* Python's `needle in hay` for strings
str_in(needle, hay) ==
    \E i \in 0..(Len(hay) - Len(needle)) :
        SubSeq(hay, i + 1, i + Len(needle)) = needle

\* 'Нет подоходящих задач', the info text of task_query, as code points
NoMatchInfo ==
    << 1053, 1077, 1090, 32,
       1087, 1086, 1076, 1086, 1093, 1086, 1076, 1103, 1097, 1080, 1093, 32,
       1079, 1072, 1076, 1072, 1095 >>

\* ------------------------------------------------------------------- JSON

\* the keys of a task record, as task_add writes them: "title",
\* "description", "id"
KeyTitle == <<116, 105, 116, 108, 101>>
KeyDescription == <<100, 101, 115, 99, 114, 105, 112, 116, 105, 111, 110>>
KeyId == <<105, 100>>

Tok(k) == [k |-> k, s |-> <<>>, n |-> 0]
StrTok(s) == [k |-> "str", s |-> s, n |-> 0]
NumTok(n) == [k |-> "num", s |-> <<>>, n |-> n]

\* json.dumps of one task dict: its keys in insertion order
dumps_item(item) ==
    << Tok("{"),
       StrTok(KeyTitle), Tok(":"), StrTok(item.title), Tok(","),
       StrTok(KeyDescription), Tok(":"), StrTok(item.description), Tok(","),
       StrTok(KeyId), Tok(":"), NumTok(item.id),
       Tok("}") >>

RECURSIVE dumps_items(_)
dumps_items(data) ==
    IF data = <<>> THEN <<>>
    ELSE IF Len(data) = 1 THEN dumps_item(data[1])
    ELSE dumps_item(data[1]) \o <<Tok(",")>> \o dumps_items(Tail(data))

\* json.dumps(self.task_data, indent=4, ensure_ascii=False)
json_dumps(data) == <<Tok("[")>> \o dumps_items(data) \o <<Tok("]")>>

ParseFail == [ok |-> FALSE, value |-> <<>>, rest |-> <<>>]

\* the members of a JSON object after its "{": key ":" value, separated by
\* "," and closed by "}"; the value is the sequence of <<key, value token>>
RECURSIVE parse_members(_, _)
parse_members(toks, acc) ==
    IF \/ Len(toks) < 4
       \/ toks[1].k # "str"
       \/ toks[2].k # ":"
       \/ toks[3].k \notin {"str", "num"}
    THEN ParseFail
    ELSE LET acc2 == Append(acc, <<toks[1].s, toks[3]>>)
             rest == SubSeq(toks, 5, Len(toks))
         IN  IF toks[4].k = "," THEN parse_members(rest, acc2)
             ELSE IF toks[4].k = "}"
                  THEN [ok |-> TRUE, value |-> acc2, rest |-> rest]
                  ELSE ParseFail

\* dict lookup: the last member with the key wins, as in Python's decoder
member(members, key) ==
    LET hits == {i \in 1..Len(members) : members[i][1] = key}
    IN  members[CHOOSE i \in hits : \A j \in hits : j <= i][2]

has_member(members, key, kind) ==
    \E i \in 1..Len(members) :
        /\ members[i][1] = key
        /\ member(members, key).k = kind

\* one JSON object holding a task record.  The code trusts the schema
\* (no validation on read); objects that are not task records are outside
\* the files this model starts from.
parse_object(toks) ==
    IF Len(toks) < 2 \/ toks[1].k # "{" THEN ParseFail
    ELSE LET m == parse_members(Tail(toks), <<>>)
         IN  IF /\ m.ok
                /\ has_member(m.value, KeyTitle, "str")
                /\ has_member(m.value, KeyDescription, "str")
                /\ has_member(m.value, KeyId, "num")
             THEN [ok |-> TRUE,
                   value |-> [title |-> member(m.value, KeyTitle).s,
                              description |->
                                  member(m.value, KeyDescription).s,
                              id |-> member(m.value, KeyId).n],
                   rest |-> m.rest]
             ELSE ParseFail

\* the elements of a JSON array after its "[": objects separated by ","
\* and closed by "]"
RECURSIVE parse_elements(_, _)
parse_elements(toks, acc) ==
    LET o == parse_object(toks)
    IN  IF ~o.ok \/ o.rest = <<>> THEN ParseFail
        ELSE LET acc2 == Append(acc, o.value)
             IN  IF o.rest[1].k = ","
                 THEN parse_elements(Tail(o.rest), acc2)
                 ELSE IF o.rest[1].k = "]"
                      THEN [ok |-> TRUE, value |-> acc2,
                            rest |-> Tail(o.rest)]
                      ELSE ParseFail

\* json.load: the decoded list, or ok = FALSE for json.JSONDecodeError
\* (an empty file, an unclosed array, trailing data, ...)
json_load(text) ==
    IF Len(text) < 2 \/ text[1].k # "[" THEN ParseFail
    ELSE LET r == IF text[2].k = "]"
                  THEN [ok |-> TRUE, value |-> <<>>,
                        rest |-> SubSeq(text, 3, Len(text))]
                  ELSE parse_elements(Tail(text), <<>>)
         IN  IF r.ok /\ r.rest = <<>> THEN r ELSE ParseFail

\* ------------------------------------------------------------------ TaskDB

\* list.sort(key=id, reverse=True) is stable: x goes behind every record
\* whose id is at least its own
RECURSIVE sort_insert(_, _)
sort_insert(sorted, x) ==
    IF sorted = <<>> THEN <<x>>
    ELSE IF Head(sorted).id >= x.id
         THEN <<Head(sorted)>> \o sort_insert(Tail(sorted), x)
         ELSE <<x>> \o sorted

RECURSIVE sort_from(_, _)
sort_from(sorted, data) ==
    IF data = <<>> THEN sorted
    ELSE sort_from(sort_insert(sorted, Head(data)), Tail(data))

\* a sort that leaves out reverse=True
RECURSIVE sort_insert_asc(_, _)
sort_insert_asc(sorted, x) ==
    IF sorted = <<>> THEN <<x>>
    ELSE IF Head(sorted).id <= x.id
         THEN <<Head(sorted)>> \o sort_insert_asc(Tail(sorted), x)
         ELSE <<x>> \o sorted

RECURSIVE sort_from_asc(_, _)
sort_from_asc(sorted, data) ==
    IF data = <<>> THEN sorted
    ELSE sort_from_asc(sort_insert_asc(sorted, Head(data)), Tail(data))

sort_data_asc(data) == sort_from_asc(<<>>, data)

\* TaskDB.sort_data
sort_data(data) == sort_from(<<>>, data)

\* a next id taken from the number of records
get_next_index_len(data) == Len(data) + 1

\* a next id taken from the last record, not the first
get_next_index_last(data) ==
    IF Len(data) = 0 THEN 1 ELSE data[Len(data)].id + 1

\* TaskDB.get_next_index
get_next_index(data) ==
    IF Len(data) = 0 THEN 1 ELSE data[1].id + 1

\* a write_data that serializes before it sorts
write_data_dump_first(data) ==
    [task_data |-> sort_data(data), text |-> json_dumps(data)]

\* a write_data that leaves out sort_data
write_data_nosort(data) ==
    [task_data |-> data, text |-> json_dumps(data)]

\* TaskDB.write_data: the sorted list, and the text the file is overwritten
\* with
write_data(data) ==
    LET sorted == sort_data(data)
    IN  [task_data |-> sorted, text |-> json_dumps(sorted)]

\* a read_data that opens the file in mode 'w+' whether or not it exists:
\* the file is emptied and json.load finds nothing to decode
read_data_trunc(f) ==
    [file |-> [exists |-> TRUE, text |-> <<>>],
     task_data |-> <<>>, raised |-> "no"]

\* a read_data that rewrites a file it cannot decode as an empty array
read_data_repair(f) ==
    IF ~f.exists
    THEN [file |-> [exists |-> TRUE, text |-> <<>>],
          task_data |-> <<>>, raised |-> "UnsupportedOperation"]
    ELSE LET r == json_load(f.text)
         IN  [file |-> IF r.ok THEN f
                       ELSE [exists |-> TRUE, text |-> json_dumps(<<>>)],
              task_data |-> IF r.ok THEN r.value ELSE <<>>,
              raised |-> "no"]

\* TaskDB.read_data on backing file f.  A missing file is opened in mode
\* 'w', which creates it empty; json.load then reads a write-only stream and
\* io.UnsupportedOperation, which is no JSONDecodeError, leaves read_data.
read_data(f) ==
    IF ~f.exists
    THEN [file |-> [exists |-> TRUE, text |-> <<>>],
          task_data |-> <<>>, raised |-> "UnsupportedOperation"]
    ELSE LET r == json_load(f.text)
         IN  [file |-> f,
              task_data |-> IF r.ok THEN r.value ELSE <<>>,
              raised |-> "no"]

\* TaskDB.task_add
task_add(data, title, description) ==
    LET item == [title |-> title, description |-> description,
                 id |-> get_next_index(data)]
        w == write_data(Append(data, item))
    IN  [task_data |-> w.task_data, text |-> w.text, id |-> item.id]

\* a test that lower-cases the records and not the query
query_match_nolower(item, query) ==
    str_in(query, lower(item.title) \o lower(item.description))

\* a test that looks in the title and in the description, one by one
query_match_separate(item, query) ==
    \/ str_in(lower(query), lower(item.title))
    \/ str_in(lower(query), lower(item.description))

\* the test of task_query's loop
query_match(item, query) ==
    str_in(lower(query), lower(item.title) \o lower(item.description))

\* a task_query that reports the lower-cased query
task_query_lower(data, query) ==
    LET task_list == SelectSeq(data, LAMBDA item : query_match(item, query))
    IN  IF Len(task_list) = 0
        THEN << [info |-> NoMatchInfo, query |-> lower(query)] >>
        ELSE task_list

\* TaskDB.task_query
task_query(data, query) ==
    LET task_list == SelectSeq(data, LAMBDA item : query_match(item, query))
    IN  IF Len(task_list) = 0
        THEN << [info |-> NoMatchInfo, query |-> query] >>
        ELSE task_list

\* list.pop() with no index: the last record goes
list_pop_last(data, count) == SubSeq(data, 1, Len(data) - 1)

\* list.pop(count), count counted from 0
list_pop(data, count) ==
    SubSeq(data, 1, count) \o SubSeq(data, count + 2, Len(data))

\* The for loop of task_done.  The list iterator holds an index i (from 0)
\* into the list, which the body changes under it: a match pops the record
\* at index count and write_data sorts the list in place and rewrites the
\* file; the iterator then goes on at i + 1 of the changed list.  count
\* never exceeds i, so pop never leaves the list.
RECURSIVE done_loop(_, _, _, _, _, _)
done_loop(data, text, wrote, i, count, task_id) ==
    IF i >= Len(data)
    THEN [task_data |-> data, text |-> text, wrote |-> wrote]
    ELSE IF data[i + 1].id = task_id
         THEN LET w == write_data(list_pop(data, count))
              IN  done_loop(w.task_data, w.text, TRUE, i + 1, count, task_id)
         ELSE done_loop(data, text, wrote, i + 1, count + 1, task_id)

\* a task_done that persists whether or not it removed a record
task_done_always_write(data, text, task_id) ==
    LET r == done_loop(data, text, FALSE, 0, 0, task_id)
        w == write_data(r.task_data)
    IN  [task_data |-> w.task_data, text |-> w.text, wrote |-> TRUE]

\* TaskDB.task_done, on a store whose file holds text: the list and the
\* file's content afterwards, and whether write_data ran
task_done(data, text, task_id) ==
    done_loop(data, text, FALSE, 0, 0, task_id)

\* The for loop of task_count_get over range(count), from task_item on
RECURSIVE count_loop(_, _, _, _)
count_loop(data, count, task_item, return_data) ==
    IF task_item >= count
    THEN [result |-> return_data, raised |-> "no"]
    ELSE IF task_item >= Len(data)
         THEN [result |-> <<>>, raised |-> "IndexError"]
         ELSE count_loop(data, count, task_item + 1,
                         Append(return_data, data[task_item + 1]))

\* a loop that takes the records from the end of the list
RECURSIVE count_loop_from_end(_, _, _, _)
count_loop_from_end(data, count, task_item, return_data) ==
    IF task_item >= count
    THEN [result |-> return_data, raised |-> "no"]
    ELSE IF task_item >= Len(data)
         THEN [result |-> <<>>, raised |-> "IndexError"]
         ELSE count_loop_from_end(data, count, task_item + 1,
                  Append(return_data, data[Len(data) - task_item]))

\* a task_count_get that returns the last count records
task_count_get_last(data, count) ==
    IF Len(data) = 0 THEN [result |-> <<>>, raised |-> "no"]
    ELSE count_loop_from_end(data, count, 0, <<>>)

\* a task_count_get that stops at the end of the list
task_count_get_clamped(data, count) ==
    [result |-> SubSeq(data, 1, IF count < Len(data) THEN count
                                ELSE Len(data)),
     raised |-> "no"]

\* a task_count_get without the test for an empty list
task_count_get_noguard(data, count) == count_loop(data, count, 0, <<>>)

\* TaskDB.task_count_get
task_count_get(data, count) ==
    IF Len(data) = 0 THEN [result |-> <<>>, raised |-> "no"]
    ELSE count_loop(data, count, 0, <<>>)

\* ------------------------------------------------------------------- state

VARIABLES
    file,        \* the backing file: whether it exists, and its content
    status,      \* per process: "none" (no store), "open" (a TaskDB is
                 \* constructed), "failed" (its constructor raised),
                 \* "exited" (its one command is done and it has ended)
    task_data,   \* per process: self.task_data of its TaskDB
    life,        \* per process, since its store was constructed: the ids
                 \* task_add assigned, whether task_done was called, and
                 \* whether the store loaded an empty collection
    last,        \* the last call made: its arguments and its outcome
    written,     \* the last write_data of any store: whether there was one,
                 \* and the collection the store held when it wrote
    foreign,     \* whether the backing file was, before the first process
                 \* ran, one written by hand and not by this program
    race         \* when two invocations run at once: the collection the
                 \* file held at the start, the number of write_data calls
                 \* so far, and per process what it loaded, after how many
                 \* writes it loaded, which write was its own (0: none)
                 \* and the command it ran

vars == <<file, status, task_data, life, last, written, foreign, race>>

\* a file a user wrote by hand: valid JSON, ids ascending
ForeignData ==
    << [title |-> <<65>>, description |-> <<98>>, id |-> 1],
       [title |-> <<98>>, description |-> <<>>, id |-> 2] >>

\* the backing file before the first run, when no hand wrote it: missing,
\* empty, or cut off after "[{" (an interrupted write)
FreshFiles ==
    { [exists |-> FALSE, text |-> <<>>],
      [exists |-> TRUE, text |-> <<>>],
      [exists |-> TRUE, text |-> <<Tok("["), Tok("{")>>] }

ForeignFile == [exists |-> TRUE, text |-> json_dumps(ForeignData)]

NewLife ==
    [assigned |-> {}, completed |-> FALSE, startedEmpty |-> TRUE]

Call(op, p) ==
    [op |-> op, proc |-> p, title |-> <<>>, description |-> <<>>,
     query |-> <<>>, task_id |-> 0, count |-> 0, id |-> 0,
     found |-> FALSE, result |-> <<>>, raised |-> "no"]

NoRun ==
    [loaded |-> <<>>, loadedAt |-> 0, wroteAt |-> 0, cmd |-> Call("none", 0)]

NoRace == [start |-> <<>>, writes |-> 0, run |-> [p \in Procs |-> NoRun]]

Init ==
    /\ foreign \in BOOLEAN
    /\ file \in (IF foreign THEN {ForeignFile} ELSE FreshFiles)
    /\ status = [p \in Procs |-> "none"]
    /\ task_data = [p \in Procs |-> <<>>]
    /\ life = [p \in Procs |-> NewLife]
    /\ last = Call("none", 0)
    /\ written = [any |-> FALSE, task_data |-> <<>>]
    /\ race = NoRace

ids_of(data) == {data[i].id : i \in 1..Len(data)}

\* TaskDB.__init__: read_data fills self.task_data, or raises
Construct(p) ==
    /\ status[p] = "none"
    /\ LET r == read_data(file)
       IN  /\ file' = r.file
           /\ status' = [status EXCEPT
                           ![p] = IF r.raised = "no" THEN "open" ELSE "failed"]
           /\ task_data' = [task_data EXCEPT ![p] = r.task_data]
           /\ life' = [life EXCEPT
                         ![p] = [NewLife EXCEPT
                                   !.startedEmpty = (r.task_data = <<>>)]]
           /\ last' = [Call("construct", p) EXCEPT
                         !.result = r.task_data, !.raised = r.raised]
    /\ UNCHANGED <<written, foreign>>

\* the process ends (after its command, or with the constructor's error)
Exit(p) ==
    /\ status[p] # "none"
    /\ status' = [status EXCEPT ![p] = "none"]
    /\ task_data' = [task_data EXCEPT ![p] = <<>>]
    /\ life' = [life EXCEPT ![p] = NewLife]
    /\ last' = Call("exit", p)
    /\ UNCHANGED <<file, written, foreign>>

\* an add that loads the file again before it appends
TaskAddReload(p, title, description) ==
    /\ status[p] = "open"
    /\ Len(read_data(file).task_data) < MaxLen
    /\ get_next_index(read_data(file).task_data) <= MaxId
    /\ LET r == task_add(read_data(file).task_data, title, description)
       IN  /\ task_data' = [task_data EXCEPT ![p] = r.task_data]
           /\ file' = [exists |-> TRUE, text |-> r.text]
           /\ life' = [life EXCEPT
                         ![p].assigned = life[p].assigned \cup {r.id}]
           /\ last' = [Call("add", p) EXCEPT
                         !.title = title, !.description = description,
                         !.id = r.id]
           /\ written' = [any |-> TRUE, task_data |-> r.task_data]
    /\ UNCHANGED <<status, foreign>>

\* tasks.task_add(title, description)
TaskAdd(p, title, description) ==
    /\ status[p] = "open"
    /\ Len(task_data[p]) < MaxLen
    /\ get_next_index(task_data[p]) <= MaxId
    /\ LET r == task_add(task_data[p], title, description)
       IN  /\ task_data' = [task_data EXCEPT ![p] = r.task_data]
           /\ file' = [exists |-> TRUE, text |-> r.text]
           /\ life' = [life EXCEPT
                         ![p].assigned = life[p].assigned \cup {r.id}]
           /\ last' = [Call("add", p) EXCEPT
                         !.title = title, !.description = description,
                         !.id = r.id]
           /\ written' = [any |-> TRUE, task_data |-> r.task_data]
    /\ UNCHANGED <<status, foreign>>

\* a query that sorts the list it scans the other way round
TaskQuerySorting(p, query) ==
    /\ status[p] = "open"
    /\ last' = [Call("query", p) EXCEPT
                  !.query = query,
                  !.result = task_query(task_data[p], query)]
    /\ task_data' = [task_data EXCEPT ![p] = sort_data_asc(task_data[p])]
    /\ UNCHANGED <<file, status, life, written, foreign>>

\* tasks.task_query(query)
TaskQuery(p, query) ==
    /\ status[p] = "open"
    /\ last' = [Call("query", p) EXCEPT
                  !.query = query,
                  !.result = task_query(task_data[p], query)]
    /\ UNCHANGED <<file, status, task_data, life, written, foreign>>

\* tasks.task_done(task_id)
TaskDone(p, task_id) ==
    /\ status[p] = "open"
    /\ LET r == task_done(task_data[p], file.text, task_id)
       IN  /\ task_data' = [task_data EXCEPT ![p] = r.task_data]
           /\ file' = [exists |-> TRUE, text |-> r.text]
           /\ written' = IF r.wrote
                         THEN [any |-> TRUE, task_data |-> r.task_data]
                         ELSE written
    /\ life' = [life EXCEPT ![p].completed = TRUE]
    /\ last' = [Call("done", p) EXCEPT
                  !.task_id = task_id,
                  !.found = (task_id \in ids_of(task_data[p]))]
    /\ UNCHANGED <<status, foreign>>

\* tasks.task_count_get(count)
TaskCountGet(p, count) ==
    /\ status[p] = "open"
    /\ LET r == task_count_get(task_data[p], count)
       IN  last' = [Call("show", p) EXCEPT
                      !.count = count, !.result = r.result,
                      !.raised = r.raised]
    /\ UNCHANGED <<file, status, task_data, life, written, foreign>>

\* what process p can do when it runs alone
Step(p) ==
    \/ Construct(p) /\ UNCHANGED race
    \/ Exit(p) /\ UNCHANGED race
    \/ (\E input \in Inputs : TaskAdd(p, input[1], input[2]))
           /\ UNCHANGED race
    \/ (\E query \in Queries : TaskQuery(p, query)) /\ UNCHANGED race
    \/ (\E task_id \in TaskIds : TaskDone(p, task_id)) /\ UNCHANGED race
    \/ (\E count \in Counts : TaskCountGet(p, count)) /\ UNCHANGED race

\* One process at a time: the tool is run, ends, and is run again
Next == Step(1)

Spec == Init /\ [][Next]_vars

\* ------------------------------------------------- two invocations at once

\* the collection two earlier adds left in the file
RaceData == sort_data(ForeignData)

\* Two invocations of the tool are started over a file an earlier run wrote
InitRace ==
    /\ foreign = FALSE
    /\ \E data \in {<<>>, RaceData} :
           /\ file = [exists |-> TRUE, text |-> json_dumps(data)]
           /\ written = [any |-> TRUE, task_data |-> data]
           /\ race = [NoRace EXCEPT !.start = data]
    /\ status = [p \in Procs |-> "none"]
    /\ task_data = [p \in Procs |-> <<>>]
    /\ life = [p \in Procs |-> NewLife]
    /\ last = Call("none", 0)

\* tasks = TaskDB() at the head of add_task, show_task, complete_task and
\* find_task
RaceLoad(p) ==
    /\ Construct(p)
    /\ race' = [race EXCEPT
                  !.run[p] = [NoRun EXCEPT !.loaded = task_data'[p],
                                           !.loadedAt = race.writes]]

\* add_task: the one command of the invocation is task_add
RaceAdd(p) ==
    /\ race.run[p].cmd.op = "none"
    /\ \E input \in Inputs : TaskAdd(p, input[1], input[2])
    /\ race' = [race EXCEPT !.writes = race.writes + 1,
                            !.run[p].wroteAt = race.writes + 1,
                            !.run[p].cmd = last']

\* complete_task: the one command of the invocation is task_done
RaceDone(p) ==
    /\ race.run[p].cmd.op = "none"
    /\ \E task_id \in TaskIds : TaskDone(p, task_id)
    /\ race' = IF last'.found
               THEN [race EXCEPT !.writes = race.writes + 1,
                                 !.run[p].wroteAt = race.writes + 1,
                                 !.run[p].cmd = last']
               ELSE [race EXCEPT !.run[p].cmd = last']

\* find_task and show_task: the one command of the invocation reads
RaceRead(p) ==
    /\ race.run[p].cmd.op = "none"
    /\ \/ \E query \in Queries : TaskQuery(p, query)
       \/ \E count \in Counts : TaskCountGet(p, count)
    /\ race' = [race EXCEPT !.run[p].cmd = last']

\* the process ends after its command
RaceFinish(p) ==
    /\ status[p] = "open"
    /\ race.run[p].cmd.op # "none"
    /\ status' = [status EXCEPT ![p] = "exited"]
    /\ last' = Call("exit", p)
    /\ UNCHANGED <<file, task_data, life, written, foreign, race>>

\* No lock is taken: the steps of the two processes interleave freely
NextRace ==
    \E p \in Procs :
        \/ RaceLoad(p)
        \/ RaceAdd(p)
        \/ RaceDone(p)
        \/ RaceRead(p)
        \/ RaceFinish(p)

SpecRace == InitRace /\ [][NextRace]_vars

\* ------------------------------------------------------------------ claims

\* the step just taken was the call op of process p
Called(op, p) == last'.op = op /\ last'.proc = p

unique_ids(data) ==
    \A i, j \in 1..Len(data) : i # j => data[i].id # data[j].id

descending(data) ==
    \A i \in 1..(Len(data) - 1) : data[i].id >= data[i + 1].id

records_of(data) == {data[i] : i \in 1..Len(data)}

\* C1: when the backing file began missing, empty or unreadable (every
\* store descends from an empty collection through add and complete), no
\* two records of a store's in-memory collection have the same id.
C1_UniqueIds ==
    ~foreign => \A p \in Procs : unique_ids(task_data[p])

\* C1's case: adds and a complete that removed a record, two records held
C1_Witness ==
    /\ ~foreign
    /\ last.op = "add"
    /\ life[1].completed
    /\ Cardinality(life[1].assigned) >= 2
    /\ Len(task_data[1]) >= 2

\* C2: on a store that has only seen add calls, the id an add assigns is
\* greater than every id an earlier add of that store assigned, and it is 1
\* when the collection is empty.
C2_AddOnlyIdsIncrease ==
    [][\A p \in Procs :
          (Called("add", p) /\ ~life[p].completed) =>
              /\ \A a \in life[p].assigned : last'.id > a
              /\ (task_data[p] = <<>> => last'.id = 1)]_vars

\* C2's case: a third add in a row on a store that started empty
C2_Witness ==
    /\ last.op = "add"
    /\ ~life[1].completed
    /\ life[1].startedEmpty
    /\ life[1].assigned = {1, 2, 3}

\* C3 as stated: on a store that starts empty, under adds and completes in
\* any order, the id an add assigns is greater than every id an earlier add
\* assigned, removed or not.
C3_NeverAssignedTwice ==
    [][\A p \in Procs :
          (Called("add", p) /\ life[p].startedEmpty) =>
              \A a \in life[p].assigned : last'.id > a]_vars

\* C3, amended: on a store that starts empty, under adds and completes in
\* any order, the id an add assigns is greater than the id of every record
\* in the collection at that moment, and is 1 when there is none.
C3_IdAboveCollection ==
    [][\A p \in Procs :
          (Called("add", p) /\ life[p].startedEmpty) =>
              /\ \A a \in ids_of(task_data[p]) : last'.id > a
              /\ last'.id >= 1
              /\ (task_data[p] = <<>> => last'.id = 1)]_vars

\* C3's case: an add after completes, on a store that started empty, that
\* assigns id 2 although 2 and 3 were assigned before (2 is reused)
C3_Witness ==
    /\ last.op = "add"
    /\ life[1].startedEmpty
    /\ life[1].completed
    /\ last.id = 2
    /\ life[1].assigned = {1, 2, 3}
    /\ ids_of(task_data[1]) = {1, 2}

\* C4: when add has returned, and when a complete that found its record has
\* returned, the backing file holds the serialization of the store's whole
\* in-memory collection, record for record in the same order.
C4_FileIsMemory ==
    (last.op = "add" \/ (last.op = "done" /\ last.found)) =>
        /\ file.exists
        /\ file.text = json_dumps(task_data[last.proc])

\* C4's case: a complete has removed one record of several
C4_Witness ==
    /\ last.op = "done"
    /\ last.found
    /\ Len(task_data[1]) >= 2

\* C5: a store constructed over a file that a store has written holds the
\* collection the writer held (the same records, ids, titles and
\* descriptions), in descending order of id.
C5_RoundTrip ==
    (last.op = "construct" /\ written.any) =>
        /\ last.raised = "no"
        /\ task_data[last.proc] = written.task_data
        /\ records_of(task_data[last.proc]) = records_of(written.task_data)
        /\ descending(task_data[last.proc])

\* C5's case: a fresh store has loaded three records another run wrote
C5_Witness ==
    /\ last.op = "construct"
    /\ written.any
    /\ life[1].assigned = {}
    /\ Len(task_data[1]) = 3

\* C6: constructing a store when no file exists succeeds, creates an empty
\* file and leaves the store open with an empty collection.
C6_ConstructCreatesFile ==
    [][\A p \in Procs :
          (Called("construct", p) /\ ~file.exists) =>
              /\ last'.raised = "no"
              /\ status'[p] = "open"
              /\ task_data'[p] = <<>>
              /\ file' = [exists |-> TRUE, text |-> <<>>]]_vars

\* C7: complete(x) when no record has id x raises nothing and leaves the
\* in-memory collection and the backing file as they were.
C7_DoneMissingIsNoOp ==
    [][\A p \in Procs :
          (Called("done", p) /\ last'.task_id \notin ids_of(task_data[p])) =>
              /\ last'.raised = "no"
              /\ task_data' = task_data
              /\ file' = file
              /\ status' = status]_vars

\* C7's case: a complete of an absent id on a store holding records whose
\* file is not what the store would write (a hand-written file, ids rising)
C7_Witness ==
    /\ last.op = "done"
    /\ ~last.found
    /\ Len(task_data[1]) >= 2
    /\ file.text # json_dumps(sort_data(task_data[1]))

\* C8: complete(x) on a collection with unique ids holding a record with id
\* x removes that record and no other: afterwards the collection, and the
\* file, hold every other record unchanged and no record with id x.
C8_DoneRemovesExactlyOne ==
    [][\A p \in Procs :
          (/\ Called("done", p)
           /\ unique_ids(task_data[p])
           /\ last'.task_id \in ids_of(task_data[p])) =>
              LET others == {r \in records_of(task_data[p]) :
                                r.id # last'.task_id}
                  on_disk == json_load(file'.text)
              IN  /\ Len(task_data'[p]) = Len(task_data[p]) - 1
                  /\ records_of(task_data'[p]) = others
                  /\ last'.task_id \notin ids_of(task_data'[p])
                  /\ on_disk.ok
                  /\ Len(on_disk.value) = Len(task_data[p]) - 1
                  /\ records_of(on_disk.value) = others]_vars

\* C8's case: the record removed stood in the middle of three
C8_Witness ==
    /\ last.op = "done"
    /\ last.found
    /\ Len(task_data[1]) = 2
    /\ task_data[1][1].id > last.task_id
    /\ last.task_id > task_data[1][2].id

\* "No matching tasks" as code points
EnglishInfo ==
    << 78, 111, 32, 109, 97, 116, 99, 104, 105, 110, 103, 32,
       116, 97, 115, 107, 115 >>

no_match(data, query) ==
    \A i \in 1..Len(data) :
        ~str_in(lower(query), lower(data[i].title \o data[i].description))

\* C9 as stated: query(s) with no matching record returns one record whose
\* info is "No matching tasks" and whose query is s; query never returns an
\* empty sequence.
C9_EnglishInfo ==
    last.op = "query" =>
        /\ Len(last.result) >= 1
        /\ no_match(task_data[last.proc], last.query) =>
               last.result =
                   << [info |-> EnglishInfo, query |-> last.query] >>

\* C9, amended: query(s) with no matching record returns one record whose
\* info is the program's Russian text and whose query is s, as given; query
\* never returns an empty sequence.
C9_NoMatchRecord ==
    last.op = "query" =>
        /\ Len(last.result) >= 1
        /\ no_match(task_data[last.proc], last.query) =>
               /\ Len(last.result) = 1
               /\ last.result[1].query = last.query
               /\ last.result[1].info = NoMatchInfo
               /\ DOMAIN last.result[1] = {"info", "query"}

\* C9's case: "AB" asked of a store whose only record is ("b", "")
C9_Witness ==
    /\ last.op = "query"
    /\ last.query = <<65, 66>>
    /\ Len(task_data[1]) = 1
    /\ no_match(task_data[1], last.query)

\* C10: list_prefix(count) on a non-empty collection with count above its
\* size fails with IndexError and returns nothing; on an empty collection
\* it returns an empty sequence for every count.
C10_ShowBounds ==
    last.op = "show" =>
        LET data == task_data[last.proc]
        IN  /\ (Len(data) > 0 /\ last.count > Len(data)) =>
                   (last.raised = "IndexError" /\ last.result = <<>>)
            /\ Len(data) = 0 =>
                   (last.raised = "no" /\ last.result = <<>>)

\* C10's case: more records asked for than the two the store holds
C10_Witness ==
    /\ last.op = "show"
    /\ Len(task_data[1]) = 2
    /\ last.count = 3
    /\ last.raised = "IndexError"

\* the store of process p started empty, two adds gave ids 1 and 2, and
\* complete(1) left the id-2 record alone in the collection
after_two_adds_and_done(p) ==
    /\ status[p] = "open"
    /\ life[p].startedEmpty
    /\ life[p].assigned = {1, 2}
    /\ life[p].completed
    /\ Len(task_data[p]) = 1
    /\ task_data[p][1].id = 2

\* C11 as stated: after two adds (ids 1 and 2) and complete(1) on a store
\* that started empty, list_prefix(10) returns only the id-2 record.
C11_ShowTenReturnsOne ==
    (last.op = "show" /\ last.count = 10
        /\ after_two_adds_and_done(last.proc)) =>
        /\ last.raised = "no"
        /\ last.result = task_data[last.proc]

\* C11, amended: after two adds (ids 1 and 2) and complete(1) on a store
\* that started empty, list_prefix(10) fails with IndexError, as every
\* count above 1 does; list_prefix(1) returns only the id-2 record.
C11_ShowAfterComplete ==
    (last.op = "show" /\ after_two_adds_and_done(last.proc)) =>
        /\ last.count > 1 =>
               (last.raised = "IndexError" /\ last.result = <<>>)
        /\ last.count = 1 =>
               /\ last.raised = "no"
               /\ Len(last.result) = 1
               /\ last.result[1].id = 2
               /\ last.result = task_data[last.proc]

\* C11's case: list_prefix(10) asked in that scenario
C11_Witness ==
    /\ last.op = "show"
    /\ last.count = 10
    /\ after_two_adds_and_done(1)
    /\ last.raised = "IndexError"

strictly_descending(data) ==
    \A i \in 1..(Len(data) - 1) : data[i].id > data[i + 1].id

\* the step just taken by process p ran write_data
Wrote(p) ==
    \/ Called("add", p)
    \/ Called("done", p) /\ last'.task_id \in ids_of(task_data[p])

\* C12 as stated: after every write by add or complete the records are in
\* strictly descending id order, in the file and in memory.
C12_StrictlyDescending ==
    [][\A p \in Procs :
          Wrote(p) =>
              /\ strictly_descending(task_data'[p])
              /\ json_load(file'.text).ok
              /\ strictly_descending(json_load(file'.text).value)]_vars

\* C12, amended: after every write by add or complete the records are in
\* descending id order, in the file and in memory: no record has a larger
\* id than one before it.  The order is strict when the file was never
\* written by hand (ids are then unique).
C12_DescendingAfterWrite ==
    [][\A p \in Procs :
          Wrote(p) =>
              LET on_disk == json_load(file'.text)
              IN  /\ descending(task_data'[p])
                  /\ on_disk.ok
                  /\ descending(on_disk.value)
                  /\ ~foreign =>
                         /\ strictly_descending(task_data'[p])
                         /\ strictly_descending(on_disk.value)]_vars

\* C12's case: an add on a store that loaded a hand-written file with the
\* ids rising; the order after the write is descending and not strict
C12_Witness ==
    /\ last.op = "add"
    /\ foreign
    /\ Len(task_data[1]) = 3
    /\ ~strictly_descending(task_data[1])
    /\ descending(task_data[1])

\* C13 as stated: in every store state, two query strings that differ only
\* in letter case get identical results, whether or not a record matches.
C13_SameResultAnyCase ==
    last.op = "query" =>
        \A other \in Queries :
            lower(other) = lower(last.query) =>
                task_query(task_data[last.proc], other) = last.result

\* C13, amended: two query strings that differ only in letter case get
\* identical results when a record matches; when none does, each gets the
\* one synthetic record, with the same info and with its own query string
\* as given, so the two results differ in the query field.
C13_CaseInsensitive ==
    last.op = "query" =>
        \A other \in Queries :
            lower(other) = lower(last.query) =>
                LET mine == last.result
                    theirs == task_query(task_data[last.proc], other)
                IN  IF no_match(task_data[last.proc], last.query)
                    THEN /\ Len(mine) = 1 /\ Len(theirs) = 1
                         /\ mine[1].info = theirs[1].info
                         /\ mine[1].query = last.query
                         /\ theirs[1].query = other
                    ELSE /\ mine = theirs
                         /\ \A i \in 1..Len(mine) :
                                mine[i] \in records_of(task_data[last.proc])

\* C13's case: "AB" asked of a store holding a record that "ab" matches
C13_Witness ==
    /\ last.op = "query"
    /\ last.query = <<65, 66>>
    /\ ~no_match(task_data[1], <<97, 98>>)
    /\ Len(last.result) >= 1

\* file f exists and json.load cannot decode it
malformed(f) == f.exists /\ ~json_load(f.text).ok

\* C14: constructing a store over an existing file that is not valid JSON
\* raises nothing, yields an empty collection and leaves the file alone;
\* the content stays until the next write (an add), which overwrites it
\* with the serialized collection.
C14_MalformedFile ==
    [][malformed(file) =>
          \A p \in Procs :
              /\ Called("construct", p) =>
                     /\ last'.raised = "no"
                     /\ status'[p] = "open"
                     /\ task_data'[p] = <<>>
                     /\ file' = file
              /\ Called("add", p) =>
                     /\ file'.text = json_dumps(task_data'[p])
                     /\ ~malformed(file')
                     /\ Len(json_load(file'.text).value) = 1
              /\ last'.op # "add" => file' = file]_vars

\* C14's case: a store is open over the file cut off after "[{"
C14_Witness ==
    /\ last.op = "construct"
    /\ status[1] = "open"
    /\ file.text = <<Tok("["), Tok("{")>>
    /\ task_data[1] = <<>>

\* the records of data that query matches, in their order: the lower-cased
\* query occurs in the lower-cased title followed by the description
RECURSIVE matching(_, _)
matching(data, query) ==
    IF data = <<>> THEN <<>>
    ELSE (IF str_in(lower(query),
                    lower(Head(data).title \o Head(data).description))
          THEN <<Head(data)>> ELSE <<>>) \o matching(Tail(data), query)

\* C15: query(s) with at least one matching record returns exactly the
\* matching records, each once, in their in-memory order.
C15_QueryReturnsMatches ==
    (last.op = "query" /\ ~no_match(task_data[last.proc], last.query)) =>
        /\ last.result = matching(task_data[last.proc], last.query)
        /\ Len(last.result) >= 1

\* C15's case: "AB" matches ("A", "b") across the title's end and leaves
\* out another record of the collection
C15_Witness ==
    /\ last.op = "query"
    /\ last.query = <<65, 66>>
    /\ Len(last.result) >= 1
    /\ Len(last.result) < Len(task_data[1])
    /\ last.result[1].title = <<65>>
    /\ last.result[1].description = <<98>>

max_id(data) == CHOOSE m \in ids_of(data) : \A a \in ids_of(data) : a <= m

\* C17: list_prefix(count) with 0 <= count <= size returns the first count
\* records of the collection in order; when the collection is in
\* descending id order these are the records with the largest ids, the
\* largest first.
C17_ShowPrefix ==
    LET data == task_data[last.proc]
    IN  (last.op = "show" /\ last.count >= 0 /\ last.count <= Len(data)) =>
            /\ last.raised = "no"
            /\ Len(last.result) = last.count
            /\ \A i \in 1..last.count : last.result[i] = data[i]
            /\ descending(data) =>
                   /\ \A i \in 1..last.count :
                          \A j \in (last.count + 1)..Len(data) :
                              last.result[i].id >= data[j].id
                   /\ last.count >= 1 => last.result[1].id = max_id(data)

\* C17's case: two of three records asked for
C17_Witness ==
    /\ last.op = "show"
    /\ last.count = 2
    /\ Len(task_data[1]) = 3
    /\ Len(last.result) = 2

\* C18: in every state of a store that runs of this program alone have
\* fed (the file was missing, empty, or last written by a store),
\* get_next_id is 1 for an empty collection and 1 + the largest id
\* otherwise.
C18_NextIdIsMaxPlusOne ==
    \A p \in Procs :
        (status[p] = "open" /\ (~foreign \/ written.any)) =>
            get_next_index(task_data[p]) =
                IF task_data[p] = <<>> THEN 1 ELSE 1 + max_id(task_data[p])

\* C18's case: a store holding ids 3 and 1 after a complete
C18_Witness ==
    /\ status[1] = "open"
    /\ ~foreign
    /\ life[1].completed
    /\ ids_of(task_data[1]) = {1, 3}

\* C19: query and list_prefix change neither the in-memory collection nor
\* the backing file, whatever their argument, also when list_prefix fails.
C19_ReadOnly ==
    [][(last'.op \in {"query", "show"}) =>
           /\ task_data' = task_data
           /\ file' = file
           /\ status' = status]_vars

\* C19's case: a list_prefix that failed on a store whose records stand in
\* an order no write leaves (a hand-written file, ids rising)
C19_Witness ==
    /\ last.op = "show"
    /\ last.raised = "IndexError"
    /\ Len(task_data[1]) = 2
    /\ ~descending(task_data[1])

\* both invocations have ended
AllExited == \A p \in Procs : status[p] = "exited"

\* the invocations that wrote the file
writers == {p \in Procs : race.run[p].wroteAt > 0}

\* the invocation whose write came last
last_writer ==
    CHOOSE w \in writers :
        \A q \in writers : race.run[q].wroteAt <= race.run[w].wroteAt

\* the records a command leaves of the collection data it was run on
records_after(cmd, data) ==
    IF cmd.op = "add"
    THEN records_of(data) \cup
             {[title |-> cmd.title, description |-> cmd.description,
               id |-> cmd.id]}
    ELSE {r \in records_of(data) : r.id # cmd.task_id}

\* C16: when two invocations on one file have both ended, in whatever
\* order their loads and writes came, the file holds the collection of the
\* invocation that wrote last: what its command made of the collection it
\* had loaded.  When it loaded before the other's write, that is what its
\* command makes of the collection the file held at the start: the other's
\* mutation is lost.
C16_LastWriterWins ==
    (AllExited /\ writers # {}) =>
        LET w == last_writer
            on_disk == json_load(file.text)
        IN  /\ on_disk.ok
            /\ on_disk.value = task_data[w]
            /\ records_of(on_disk.value) =
                   records_after(race.run[w].cmd, race.run[w].loaded)
            /\ \A q \in writers \ {w} :
                   race.run[w].loadedAt < race.run[q].wroteAt =>
                       records_of(on_disk.value) =
                           records_after(race.run[w].cmd, race.start)

\* C16's case: one invocation completed task 1 and wrote; the other, which
\* had loaded before that write, added a task and wrote last; the file
\* holds task 1 again
C16_Witness ==
    /\ AllExited
    /\ writers = Procs
    /\ \E w \in Procs : \E q \in Procs \ {w} :
           /\ race.run[q].wroteAt < race.run[w].wroteAt
           /\ race.run[w].loadedAt < race.run[q].wroteAt
           /\ race.run[q].cmd.op = "done"
           /\ race.run[q].cmd.task_id = 1
           /\ race.run[w].cmd.op = "add"
           /\ 1 \in ids_of(json_load(file.text).value)

====
